---- MODULE Spec2Model ----
(***************************************************************************)
(* Model of the terminal Snake game: the Game engine of src/src/game.rs    *)
(* (Coordinate, Direction, Snake, Game::new, update_food_coord,            *)
(* change_snake_dir, step) and the driver loop of src/src/main.rs.         *)
(*                                                                         *)
(* Two specifications are given.  Spec is the program: main's loop around  *)
(* get_user_key / change_snake_dir / step.  SpecGame is the Game object    *)
(* used through its public methods in any order (change_snake_dir with any *)
(* direction, step at any time, also after a game-over).                   *)
(***************************************************************************)
EXTENDS Integers, Sequences, FiniteSets, TLC

VARIABLES board_size, body, direction, food_pos, outcome,
          pc, key_pressed, is_game_running

game == <<body, direction, food_pos>>
vars == <<board_size, body, direction, food_pos, outcome,
          pc, key_pressed, is_game_running>>

(* Largest board side explored; Game::new takes any board_size. *)
MaxBoard == 3

BoardSizes == 2..MaxBoard

(* ---------------- Coordinate, Direction ---------------- *)

(* Coordinate.x / Coordinate.y are u8. *)
U8(n) == n % 256

Coordinate(cx, cy) == [x |-> cx, y |-> cy]

Directions == {"UP", "DOWN", "LEFT", "RIGHT"}

(* Variant: the RIGHT arm returns RIGHT. *)
get_opposite_right(d) ==
    CASE d = "UP"    -> "DOWN"
      [] d = "DOWN"  -> "UP"
      [] d = "LEFT"  -> "RIGHT"
      [] d = "RIGHT" -> "RIGHT"

get_opposite(d) ==
    CASE d = "UP"    -> "DOWN"
      [] d = "DOWN"  -> "UP"
      [] d = "LEFT"  -> "RIGHT"
      [] d = "RIGHT" -> "LEFT"

(* ---------------- Snake ---------------- *)

(* Variant: the two segments are pushed in the other order. *)
Snake_new_body_head_right == <<Coordinate(1, 0), Coordinate(0, 0)>>

(* VecDeque after push_back (0,0), push_back (1,0): index 1 is the front. *)
Snake_new_body == <<Coordinate(0, 0), Coordinate(1, 0)>>

(* Variant: the initial heading points at the second segment. *)
Snake_new_direction_right == "RIGHT"

Snake_new_direction == "LEFT"

(* body.front() *)
get_head(b) == b[1]

(* body.pop_back() *)
rm_tail(b) == SubSeq(b, 1, Len(b) - 1)

(* body.push_front(c) *)
push_front(b, c) == <<c>> \o b

(* VecDeque::contains *)
contains(b, c) == \E i \in 1..Len(b) : b[i] = c

(* ---------------- Game ---------------- *)

(* Variant: the initial food is not above the head. *)
Game_new_food_pos_diagonal == Coordinate(1, 1)

Game_new_food_pos == Coordinate(0, 1)

(* Variant: the loop over x stops one column early. *)
available_positions_short(bs, b) ==
    { c \in { Coordinate(U8(cx), U8(cy)) : cx \in 0..(bs - 2), cy \in 0..(bs - 1) } :
        ~contains(b, c) }

(* Variant: the snake's cells are not excluded from the candidates. *)
available_positions_any(bs, b) ==
    { Coordinate(U8(cx), U8(cy)) : cx \in 0..(bs - 1), cy \in 0..(bs - 1) }

(* The cells enumerated by the two nested loops of update_food_coord that *)
(* the snake body does not contain. *)
available_positions(bs, b) ==
    { c \in { Coordinate(U8(cx), U8(cy)) : cx \in 0..(bs - 1), cy \in 0..(bs - 1) } :
        ~contains(b, c) }

NoCoord == [x |-> -1, y |-> -1]

(* Variant: the UP arm's guard admits y = board_size. *)
next_coord_up(bs, head, d) ==
    CASE d = "UP"    /\ head.y + 1 <= bs -> Coordinate(head.x, U8(head.y + 1))
      [] d = "DOWN"  /\ head.y - 1 >= 0  -> Coordinate(head.x, U8(head.y - 1))
      [] d = "LEFT"  /\ head.x - 1 >= 0  -> Coordinate(U8(head.x - 1), head.y)
      [] d = "RIGHT" /\ head.x + 1 < bs  -> Coordinate(U8(head.x + 1), head.y)
      [] OTHER -> NoCoord

(* Variant: the RIGHT arm's guard admits x = board_size. *)
next_coord_right(bs, head, d) ==
    CASE d = "UP"    /\ head.y + 1 < bs  -> Coordinate(head.x, U8(head.y + 1))
      [] d = "DOWN"  /\ head.y - 1 >= 0  -> Coordinate(head.x, U8(head.y - 1))
      [] d = "LEFT"  /\ head.x - 1 >= 0  -> Coordinate(U8(head.x - 1), head.y)
      [] d = "RIGHT" /\ head.x + 1 <= bs -> Coordinate(U8(head.x + 1), head.y)
      [] OTHER -> NoCoord

(* The match on the heading in step: the next head cell, or NoCoord when  *)
(* no guarded arm matches (the `_` arm).                                  *)
next_coord(bs, head, d) ==
    CASE d = "UP"    /\ head.y + 1 < bs  -> Coordinate(head.x, U8(head.y + 1))
      [] d = "DOWN"  /\ head.y - 1 >= 0  -> Coordinate(head.x, U8(head.y - 1))
      [] d = "LEFT"  /\ head.x - 1 >= 0  -> Coordinate(U8(head.x - 1), head.y)
      [] d = "RIGHT" /\ head.x + 1 < bs  -> Coordinate(U8(head.x + 1), head.y)
      [] OTHER -> NoCoord

(* Variant: the check is made after the tail has left. *)
collides_without_tail(b, next) == contains(rm_tail(b), next)

(* Variant: no collision check. *)
collides_never(b, next) == FALSE

(* self.snake.body.contains(&next_coord) *)
collides(b, next) == contains(b, next)

(* Variant: strict comparison. *)
board_full_strict(bs, b) == Len(b) + 1 > bs * bs

(* Variant: the segment about to be added is not counted. *)
board_full_uncounted(bs, b) == Len(b) >= bs * bs

(* self.snake.body.len() + 1 >= self.board_size * self.board_size *)
board_full(bs, b) == Len(b) + 1 >= bs * bs

(* Variant: the segment is removed at the front. *)
slide_pop_front(b, next) == push_front(Tail(b), next)

(* Variant: the tail is kept. *)
slide_keep_tail(b, next) == push_front(b, next)

(* The non-eating arm: rm_tail, then push_front(next_coord). *)
slide(b, next) == push_front(rm_tail(b), next)

(* update_food_coord on the body b it sees: food_pos is any element of    *)
(* available_positions; unwrap of an empty choice panics.                 *)
update_food_coord(b) ==
    LET avail == available_positions(board_size, b)
    IN  IF avail = {}
        THEN food_pos' = food_pos /\ outcome' = "Panic"
        ELSE food_pos' \in avail /\ outcome' = "Continue"

(* Game::step.  outcome' is what the call reports: "Continue" for a       *)
(* return of true; for a return of false the message printed before it;   *)
(* "Panic" for a failed unwrap.                                           *)
step ==
    IF body = <<>>
    THEN outcome' = "Panic" /\ UNCHANGED <<body, food_pos>>
    ELSE
      LET next == next_coord(board_size, get_head(body), direction)
      IN  IF next = NoCoord
          THEN outcome' = "OutOfBounds" /\ UNCHANGED <<body, food_pos>>
          ELSE IF collides(body, next)
          THEN outcome' = "SelfCollision" /\ UNCHANGED <<body, food_pos>>
          ELSE IF next = food_pos
          THEN IF board_full(board_size, body)
               THEN outcome' = "Won" /\ UNCHANGED <<body, food_pos>>
               ELSE /\ body' = push_front(body, food_pos)
                    /\ update_food_coord(body')
          ELSE /\ body' = slide(body, next)
               /\ outcome' = "Continue"
               /\ UNCHANGED food_pos

(* Variant: the head marker is put on body.back(). *)
display_head_back(b) == b[Len(b)]

(* let head = self.snake.body.front().unwrap() in display_state *)
display_head(b) == b[1]

(* display_state indexes board[board_size - 1 - y][x] for every segment   *)
(* and for the food: an index outside the board, or an empty body, panics. *)
display_state_panics(bs, b, f) ==
    \/ b = <<>>
    \/ \E c \in { b[i] : i \in 1..Len(b) } \cup {f} :
          \/ c.x < 0 \/ c.x >= bs
          \/ c.y < 0 \/ c.y >= bs

(* The board display_state prints, board[row][column], row 0 printed      *)
(* first: '*' everywhere, then 'S' on every segment, then 'H' on the head, *)
(* then 'F' on the food; a later write replaces an earlier one.           *)
display_state(bs, b, f) ==
    [r \in 0..(bs - 1) |-> [c \in 0..(bs - 1) |->
        IF r = bs - 1 - f.y /\ c = f.x
        THEN "F"
        ELSE IF r = bs - 1 - display_head(b).y /\ c = display_head(b).x
        THEN "H"
        ELSE IF \E i \in 1..Len(b) : r = bs - 1 - b[i].y /\ c = b[i].x
        THEN "S"
        ELSE "*"]]

(* Game::new(board_size) *)
Game_new ==
    /\ board_size \in BoardSizes
    /\ body = Snake_new_body
    /\ direction = Snake_new_direction
    /\ food_pos = Game_new_food_pos
    /\ outcome = "None"

(* ---------------- main: the driver loop ---------------- *)

Interrupt == "Interrupt"

(* What get_user_key can return: Ok(direction) or Err("User interrupted"). *)
Keys == Directions \cup {Interrupt}

(* Variant: the new direction is compared without get_opposite. *)
is_opposite_same(new_dir, cur) == new_dir = cur

(* new_dir.get_opposite() == game.get_current_dir() *)
is_opposite(new_dir, cur) == get_opposite(new_dir) = cur

(* Variant: the result of step does not end the loop. *)
after_step_always(ret) == "get_user_key"

(* `is_game_running = game.step()` followed by the while condition. *)
after_step(ret) == IF ret THEN "get_user_key" ELSE "done"

Init ==
    /\ Game_new
    /\ pc = "get_user_key"
    /\ key_pressed = "None"
    /\ is_game_running = TRUE

(* game.display_state(); let key_pressed = game.get_user_key(); *)
GetUserKey ==
    /\ pc = "get_user_key"
    /\ IF display_state_panics(board_size, body, food_pos)
       THEN pc' = "panic" /\ UNCHANGED key_pressed
       ELSE pc' = "match" /\ key_pressed' \in Keys
    /\ UNCHANGED <<board_size, body, direction, food_pos, outcome, is_game_running>>

(* Ok(new_dir) if new_dir.get_opposite() == game.get_current_dir() => continue *)
RejectOpposite ==
    /\ pc = "match"
    /\ key_pressed \in Directions
    /\ is_opposite(key_pressed, direction)
    /\ pc' = "get_user_key"
    /\ UNCHANGED <<board_size, body, direction, food_pos, outcome, key_pressed,
                   is_game_running>>

(* Ok(key_pressed) => game.change_snake_dir(key_pressed) *)
ChangeSnakeDir ==
    /\ pc = "match"
    /\ key_pressed \in Directions
    /\ ~is_opposite(key_pressed, direction)
    /\ direction' = key_pressed
    /\ pc' = "step"
    /\ UNCHANGED <<board_size, body, food_pos, outcome, key_pressed, is_game_running>>

(* Err(e) if e == "User interrupted" => process::exit(0) *)
Exit ==
    /\ pc = "match"
    /\ key_pressed = Interrupt
    /\ pc' = "exit"
    /\ UNCHANGED <<board_size, body, direction, food_pos, outcome, key_pressed,
                   is_game_running>>

(* is_game_running = game.step(); then the loop condition *)
Step ==
    /\ pc = "step"
    /\ step
    /\ is_game_running' = (outcome' = "Continue")
    /\ pc' = IF outcome' = "Panic" THEN "panic" ELSE after_step(is_game_running')
    /\ UNCHANGED <<board_size, direction, key_pressed>>

Next == GetUserKey \/ RejectOpposite \/ ChangeSnakeDir \/ Exit \/ Step

Spec == Init /\ [][Next]_vars

(* ---------------- the Game object used directly ---------------- *)

InitGame ==
    /\ Game_new
    /\ pc = "call"
    /\ key_pressed = "None"
    /\ is_game_running = TRUE

(* game.change_snake_dir(new_dir), any new_dir *)
CallChangeSnakeDir ==
    /\ pc = "call"
    /\ \E new_dir \in Directions : direction' = new_dir
    /\ UNCHANGED <<board_size, body, food_pos, outcome, pc, key_pressed, is_game_running>>

(* the caller invokes game.step() *)
CallStep ==
    /\ pc = "call"
    /\ pc' = "game_step"
    /\ UNCHANGED <<board_size, body, direction, food_pos, outcome, key_pressed,
                   is_game_running>>

(* game.step() runs and returns to the caller *)
GameStep ==
    /\ pc = "game_step"
    /\ step
    /\ pc' = IF outcome' = "Panic" THEN "panic" ELSE "call"
    /\ UNCHANGED <<board_size, direction, key_pressed, is_game_running>>

NextGame == CallChangeSnakeDir \/ CallStep \/ GameStep

SpecGame == InitGame /\ [][NextGame]_vars

(* ---------------- the Game object on main's board ---------------- *)

(* Game::new(5) in main *)
main_board_size == 5

(* Longest snake that is still stepped on main's board. *)
ScenarioMaxLen == 3

InitScenario ==
    /\ board_size = main_board_size
    /\ body = Snake_new_body
    /\ direction = Snake_new_direction
    /\ food_pos = Game_new_food_pos
    /\ outcome = "None"
    /\ pc = "call"
    /\ key_pressed = "None"
    /\ is_game_running = TRUE

(* the caller invokes game.step() while the snake is short *)
CallStepShort ==
    /\ Len(body) <= ScenarioMaxLen
    /\ CallStep

NextScenario == CallChangeSnakeDir \/ CallStepShort \/ GameStep

SpecScenario == InitScenario /\ [][NextScenario]_vars

(* ---------------- the Game object from its construction ---------------- *)

(* Before Game::new(board_size) has run there is no snake and no food. *)
InitNew ==
    /\ board_size \in BoardSizes
    /\ body = <<>>
    /\ direction = "None"
    /\ food_pos = NoCoord
    /\ outcome = "None"
    /\ pc = "new"
    /\ key_pressed = "None"
    /\ is_game_running = TRUE

(* Game::new(board_size): Snake::new and the initial food_pos *)
Construct ==
    /\ pc = "new"
    /\ body' = Snake_new_body
    /\ direction' = Snake_new_direction
    /\ food_pos' = Game_new_food_pos
    /\ pc' = "call"
    /\ UNCHANGED <<board_size, outcome, key_pressed, is_game_running>>

NextNew == Construct \/ CallChangeSnakeDir \/ CallStep \/ GameStep

SpecNew == InitNew /\ [][NextNew]_vars

(* ---------------- properties ---------------- *)

Grid == { Coordinate(cx, cy) : cx \in 0..(board_size - 1), cy \in 0..(board_size - 1) }

BodyCells == { body[i] : i \in 1..Len(body) }

(* The head displaced by one cell in the heading, as integers. *)
ShiftedHead ==
    LET h == body[1]
    IN  [x |-> h.x + (IF direction = "RIGHT" THEN 1 ELSE IF direction = "LEFT" THEN -1 ELSE 0),
         y |-> h.y + (IF direction = "UP" THEN 1 ELSE IF direction = "DOWN" THEN -1 ELSE 0)]

ShiftOutside ==
    \/ ShiftedHead.x < 0 \/ ShiftedHead.x >= board_size
    \/ ShiftedHead.y < 0 \/ ShiftedHead.y >= board_size

(* step is about to run *)
StepCall == pc \in {"step", "game_step"}

GameOverOutcomes == {"OutOfBounds", "SelfCollision", "Won"}

(* C1: right after Game::new and after every step that returned true,    *)
(* food_pos is not a coordinate of the snake body.                       *)
C1_FoodNotOnSnake ==
    outcome \in {"None", "Continue"} => food_pos \notin BodyCells

(* a step has eaten, grown the snake and re-placed the food *)
C1_Witness ==
    /\ outcome = "Continue"
    /\ Len(body) >= 4
    /\ food_pos # Game_new_food_pos

(* C2: a step whose shifted head lies outside [0, board_size) reports    *)
(* out of bounds and leaves body, heading and food_pos as they were.     *)
C2_OutOfBounds ==
    [][(StepCall /\ ShiftOutside) =>
         (outcome' = "OutOfBounds" /\ UNCHANGED game)]_vars

(* a step against the upper wall (y = board_size) has been refused *)
C2_Witness ==
    /\ outcome = "OutOfBounds"
    /\ pc \in {"call", "done"}
    /\ direction = "UP"
    /\ body[1].y = board_size - 1
    /\ Len(body) >= 3

(* C3: a step whose in-bounds shifted head is a cell of the body before  *)
(* the move, the tail's cell included, reports self-collision and leaves *)
(* body, heading and food_pos unchanged.                                 *)
C3_SelfCollision ==
    [][(StepCall /\ ~ShiftOutside /\ ShiftedHead \in BodyCells) =>
         (outcome' = "SelfCollision" /\ UNCHANGED game)]_vars

(* a move onto the cell held by the tail (not the neck) has been refused *)
C3_Witness ==
    /\ outcome = "SelfCollision"
    /\ pc \in {"call", "done"}
    /\ Len(body) >= 4
    /\ ShiftedHead = body[Len(body)]

(* C4: a step that returns Continue keeps the length when the next head  *)
(* cell is not food_pos and adds exactly 1 when it is; the winning step  *)
(* keeps the length.                                                     *)
C4_Length ==
    [][StepCall =>
         /\ (outcome' = "Continue" /\ ShiftedHead # food_pos) => Len(body') = Len(body)
         /\ (outcome' = "Continue" /\ ShiftedHead = food_pos) => Len(body') = Len(body) + 1
         /\ outcome' = "Won" => Len(body') = Len(body)]_vars

(* the snake has eaten at least twice and the last step was a plain move *)
C4_Witness ==
    /\ outcome = "Continue"
    /\ Len(body) >= 4
    /\ body[1] # food_pos
    /\ ~contains(body, Game_new_food_pos)

(* C5: when the next head cell is food_pos and length + 1 >=             *)
(* board_size^2, step reports the win and changes nothing.               *)
C5_Win ==
    [][(StepCall /\ ShiftedHead = food_pos
          /\ Len(body) + 1 >= board_size * board_size) =>
         (outcome' = "Won" /\ UNCHANGED game)]_vars

(* a snake of length board_size^2 - 1 has taken the last food cell *)
C5_Witness ==
    /\ outcome = "Won"
    /\ board_size >= 3
    /\ Len(body) = board_size * board_size - 1
    /\ ShiftedHead = food_pos

(* C6: whenever step grows the snake, and so invokes update_food_coord,  *)
(* some board cell is not on the grown body and the choice does not fail. *)
C6_FoodPlacementHasCandidate ==
    [][(StepCall /\ Len(body') > Len(body)) =>
         (Grid' \ BodyCells' # {} /\ outcome' # "Panic")]_vars

(* food has been placed on the single cell the grown snake left free *)
C6_Witness ==
    /\ outcome = "Continue"
    /\ board_size >= 3
    /\ Grid \ BodyCells = {food_pos}

(* C7: in the driver loop an input whose opposite is the current heading *)
(* is ignored: no change of heading, no step, body and food_pos          *)
(* unchanged, and the player is prompted again.                          *)
C7_OppositeIgnored ==
    [][(pc = "match"
          /\ <<key_pressed, direction>> \in
               {<<"UP", "DOWN">>, <<"DOWN", "UP">>, <<"LEFT", "RIGHT">>, <<"RIGHT", "LEFT">>}) =>
         (pc' = "get_user_key" /\ UNCHANGED <<game, outcome, is_game_running>>)]_vars

(* input UP while heading DOWN was ignored and the player is prompted again *)
C7_Witness ==
    /\ pc = "get_user_key"
    /\ key_pressed = "UP"
    /\ direction = "DOWN"

(* C8: once step has signalled game-over, or the process has exited on   *)
(* an Interrupt, nothing happens any more; an Interrupt read from the    *)
(* input exits without a step.                                           *)
C8_Terminates ==
    [][/\ outcome \notin GameOverOutcomes
       /\ pc # "exit"
       /\ (pc = "match" /\ key_pressed = Interrupt) => (pc' = "exit" /\ UNCHANGED game)]_vars

(* the loop has ended on a game-over signalled by step *)
C8_Witness ==
    /\ pc = "done"
    /\ ~is_game_running
    /\ outcome = "SelfCollision"

(* C9: every snake body coordinate and food_pos lie on the board. *)
C9_OnBoard ==
    BodyCells \cup {food_pos} \subseteq Grid

(* the head has been moved into the far corner of the board *)
C9_Witness ==
    /\ outcome = "Continue"
    /\ body[1] = Coordinate(board_size - 1, board_size - 1)

(* C10: the snake body is never empty (no unwrap on an empty body) and   *)
(* holds no coordinate twice.                                            *)
C10_BodyNonEmptyDistinct ==
    /\ Len(body) >= 1
    /\ outcome # "Panic"
    /\ \A i, j \in 1..Len(body) : body[i] = body[j] => i = j

(* the snake has moved with the tail removed next to cells it still holds *)
C10_Witness ==
    /\ outcome = "Continue"
    /\ Len(body) >= 5
    /\ food_pos # body[1]
    /\ \E i \in 4..Len(body) :
         (body[i].x - body[1].x) * (body[i].x - body[1].x)
           + (body[i].y - body[1].y) * (body[i].y - body[1].y) = 1

(* The first step of a newly constructed game is about to run. *)
FirstStepCall == pc = "game_step" /\ outcome = "None"

(* C11 as stated: right after construction the snake has two segments,   *)
(* head (1,0), second segment (0,0), heading LEFT.                       *)
C11_Original ==
    (pc = "get_user_key" /\ key_pressed = "None") =>
        /\ Len(body) = 2
        /\ get_head(body) = Coordinate(1, 0)
        /\ body[2] = Coordinate(0, 0)
        /\ direction = "LEFT"

(* C11 amended: right after construction the snake has two segments,     *)
(* head (front of the body) at (0,0), second segment at (1,0), heading   *)
(* LEFT.                                                                 *)
C11_InitialSnake ==
    (pc = "get_user_key" /\ key_pressed = "None") =>
        /\ Len(body) = 2
        /\ get_head(body) = Coordinate(0, 0)
        /\ body[2] = Coordinate(1, 0)
        /\ direction = "LEFT"

(* the game as constructed, before the first input *)
C11_Witness ==
    /\ pc = "get_user_key"
    /\ key_pressed = "None"
    /\ outcome = "None"
    /\ Len(body) = 2

(* C12: on a size-5 board the first step of the new game, heading still  *)
(* LEFT, reports out of bounds (not self-collision) and leaves the snake *)
(* unchanged.                                                            *)
C12_FirstStepLeft ==
    [][(FirstStepCall /\ board_size = 5 /\ direction = "LEFT") =>
         (outcome' = "OutOfBounds" /\ body' = body)]_vars

(* the new game on the size-5 board was stepped heading LEFT and refused *)
C12_Witness ==
    /\ board_size = 5
    /\ pc = "call"
    /\ outcome = "OutOfBounds"
    /\ direction = "LEFT"
    /\ body = Snake_new_body
    /\ food_pos = Game_new_food_pos

(* C13 as stated: on a size-5 board, change_direction(RIGHT) and one     *)
(* step from the new game continue with body [(2,0),(1,0)].              *)
C13_Original ==
    [][(FirstStepCall /\ board_size = 5 /\ direction = "RIGHT") =>
         (outcome' = "Continue"
            /\ body' = <<Coordinate(2, 0), Coordinate(1, 0)>>)]_vars

(* C13 amended: on a size-5 board, change_direction(RIGHT) and one step  *)
(* from the new game report self-collision, the next head cell (1,0)     *)
(* being the tail's cell; the body stays [(0,0),(1,0)], length 2.        *)
C13_FirstStepRight ==
    [][(FirstStepCall /\ board_size = 5 /\ direction = "RIGHT") =>
         (outcome' = "SelfCollision"
            /\ body' = <<Coordinate(0, 0), Coordinate(1, 0)>>
            /\ food_pos' = food_pos)]_vars

(* the new game on the size-5 board was turned RIGHT, stepped and refused *)
C13_Witness ==
    /\ board_size = 5
    /\ pc = "call"
    /\ outcome = "SelfCollision"
    /\ direction = "RIGHT"
    /\ body = Snake_new_body
    /\ food_pos = Game_new_food_pos

(* The board's cells and the ring of cells around the board. *)
NearCells == { Coordinate(cx, cy) : cx \in (-1)..board_size, cy \in (-1)..board_size }

(* The step about to run eats without winning, so it places food. *)
EatingStepCall ==
    /\ pc = "game_step"
    /\ body # <<>>
    /\ ~ShiftOutside
    /\ ShiftedHead = food_pos
    /\ ShiftedHead \notin BodyCells
    /\ Len(body) + 1 < board_size * board_size

(* C14 as stated: at game start and after each non-winning eating step   *)
(* the cells food_pos can be given are exactly the board cells not       *)
(* occupied by the snake body.                                           *)
C14_Original ==
    /\ pc = "new" =>
         \A c \in NearCells :
            (ENABLED (Construct /\ food_pos' = c))
               <=> c \in Grid \ { Snake_new_body[i] : i \in 1..Len(Snake_new_body) }
    /\ EatingStepCall =>
         \A c \in NearCells :
            (ENABLED (GameStep /\ food_pos' = c))
               <=> c \in Grid \ (BodyCells \cup {food_pos})

(* C14 amended: at game start food_pos is the fixed cell (0,1), which is *)
(* a board cell off the snake; after each non-winning eating step the    *)
(* cells food_pos can be given are exactly the board cells not occupied  *)
(* by the grown snake body.                                              *)
C14_FoodPlacement ==
    /\ pc = "new" =>
         /\ \A c \in NearCells :
               (ENABLED (Construct /\ food_pos' = c)) <=> c = Coordinate(0, 1)
         /\ Coordinate(0, 1) \in Grid \ { Snake_new_body[i] : i \in 1..Len(Snake_new_body) }
    /\ EatingStepCall =>
         \A c \in NearCells :
            (ENABLED (GameStep /\ food_pos' = c))
               <=> c \in Grid \ (BodyCells \cup {food_pos})

(* food was re-placed after an eating step that left several free cells *)
C14_Witness ==
    /\ pc = "call"
    /\ outcome = "Continue"
    /\ Len(body) >= 4
    /\ food_pos \notin BodyCells
    /\ Cardinality(Grid \ BodyCells) >= 3
    /\ food_pos # Game_new_food_pos

(* C15: for the direction read from the input, and for each of the four  *)
(* directions, the opposite of the opposite is the direction itself, the *)
(* opposite differs from the direction, and UP <-> DOWN, LEFT <-> RIGHT. *)
C15_OppositeInvolution ==
    /\ key_pressed \in Directions =>
         /\ get_opposite(get_opposite(key_pressed)) = key_pressed
         /\ get_opposite(key_pressed) # key_pressed
    /\ \A d \in Directions :
         /\ get_opposite(d) \in Directions
         /\ get_opposite(get_opposite(d)) = d
         /\ get_opposite(d) # d
    /\ get_opposite("UP") = "DOWN" /\ get_opposite("DOWN") = "UP"
    /\ get_opposite("LEFT") = "RIGHT" /\ get_opposite("RIGHT") = "LEFT"

(* the opposite of input LEFT was computed and found equal to heading RIGHT *)
C15_Witness ==
    /\ pc = "get_user_key"
    /\ key_pressed = "LEFT"
    /\ direction = "RIGHT"
    /\ outcome = "Continue"

(* C16 as stated: in no state reachable through the driver loop is the   *)
(* next head cell of a step the cell of the tail.                        *)
C16_Original ==
    pc = "step" => ShiftedHead # body[Len(body)]

(* C16 amended: through the driver loop the next head cell of a step is  *)
(* the cell of the tail only when the snake has at least 4 segments.     *)
C16_TailMoveNeedsFour ==
    (pc = "step" /\ ShiftedHead = body[Len(body)]) => Len(body) >= 4

(* the driver stepped a snake of 4 segments onto its tail cell and lost *)
C16_Witness ==
    /\ pc = "done"
    /\ outcome = "SelfCollision"
    /\ Len(body) = 4
    /\ ShiftedHead = body[4]

(* The marker display_state prints for the cell c. *)
Marker(c) == display_state(board_size, body, food_pos)[board_size - 1 - c.y][c.x]

(* C17: the rendered grid shows HEAD on the head cell, BODY on every     *)
(* other body cell, FOOD on the food cell and EMPTY elsewhere: one HEAD, *)
(* one FOOD, length - 1 BODY cells, and FOOD is not put on a snake cell. *)
C17_Render ==
    /\ pc # "panic"
    /\ ~display_state_panics(board_size, body, food_pos)
    /\ \A c \in Grid :
         Marker(c) = IF c = body[1] THEN "H"
                     ELSE IF c \in BodyCells THEN "S"
                     ELSE IF c = food_pos THEN "F"
                     ELSE "*"
    /\ Cardinality({ c \in Grid : Marker(c) = "H" }) = 1
    /\ Cardinality({ c \in Grid : Marker(c) = "F" }) = 1
    /\ Cardinality({ c \in Grid : Marker(c) = "S" }) = Len(body) - 1
    /\ food_pos \notin BodyCells

(* a grown snake is rendered before the next prompt, head in the top row *)
C17_Witness ==
    /\ pc = "match"
    /\ outcome = "Continue"
    /\ Len(body) >= 4
    /\ \E c \in 0..(board_size - 1) :
         display_state(board_size, body, food_pos)[0][c] = "H"
    /\ \E c \in Grid : Marker(c) = "*"

(* Unit displacement of a heading. *)
Displacement(d) ==
    [x |-> IF d = "RIGHT" THEN 1 ELSE IF d = "LEFT" THEN -1 ELSE 0,
     y |-> IF d = "UP" THEN 1 ELSE IF d = "DOWN" THEN -1 ELSE 0]

(* C18: every two consecutive segments of the body differ by exactly 1   *)
(* in exactly one of x, y.                                               *)
C18_Connected ==
    \A i \in 1..(Len(body) - 1) :
        LET dx == body[i].x - body[i + 1].x
            dy == body[i].y - body[i + 1].y
        IN  \/ (dx \in {-1, 1} /\ dy = 0)
            \/ (dx = 0 /\ dy \in {-1, 1})

(* a snake of 5 or more segments with a bend behind the head has moved *)
C18_Witness ==
    /\ outcome = "Continue"
    /\ pc = "call"
    /\ Len(body) >= 5
    /\ body[1].x # body[3].x
    /\ body[1].y # body[3].y
    /\ food_pos # body[1]

(* C19: while the driver waits for input the heading is the displacement *)
(* from the second segment to the head, and no step the driver invokes   *)
(* has the second segment as its next head cell.                         *)
C19_HeadingFollowsNeck ==
    /\ pc \in {"get_user_key", "match"} =>
         /\ Len(body) >= 2
         /\ direction \in Directions
         /\ body[1].x - body[2].x = Displacement(direction).x
         /\ body[1].y - body[2].y = Displacement(direction).y
    /\ pc = "step" => (Len(body) >= 2 /\ ShiftedHead # body[2])

(* the driver waits for input after a step that moved the snake DOWN *)
C19_Witness ==
    /\ pc = "get_user_key"
    /\ outcome = "Continue"
    /\ direction = "DOWN"
    /\ body[1].y = body[2].y - 1
    /\ Len(body) >= 4

(* C20: in the driver's first tick RIGHT is rejected, LEFT and DOWN end  *)
(* the game out of bounds and UP eats the initial food and grows the     *)
(* snake to 3 segments; after a Continue step the snake never has 2.     *)
C20_FirstTick ==
    [][/\ (pc = "match" /\ outcome = "None" /\ key_pressed = "RIGHT") =>
            (pc' = "get_user_key" /\ UNCHANGED <<game, outcome>>)
       /\ (pc = "step" /\ outcome = "None") =>
            /\ direction \in {"UP", "LEFT", "DOWN"}
            /\ direction \in {"LEFT", "DOWN"} =>
                 (outcome' = "OutOfBounds" /\ pc' = "done" /\ UNCHANGED game)
            /\ direction = "UP" =>
                 /\ outcome' = "Continue"
                 /\ pc' = "get_user_key"
                 /\ body' = <<Coordinate(0, 1), Coordinate(0, 0), Coordinate(1, 0)>>
       /\ outcome' = "Continue" => Len(body') >= 3]_vars

(* the first tick was UP: the initial food is eaten, the snake has 3 segments *)
C20_Witness ==
    /\ pc = "get_user_key"
    /\ outcome = "Continue"
    /\ key_pressed = "UP"
    /\ body = <<Coordinate(0, 1), Coordinate(0, 0), Coordinate(1, 0)>>
    /\ food_pos \notin BodyCells

====
